---- MODULE Spec2Model ----
(***************************************************************************)
(* A model of mlir::Operation (include/mlir/IR/Operation.h): the           *)
(* OperationState construction descriptor, the attribute list of a node,   *)
(* operand and result access, the packed name/kind word, the typed-view    *)
(* downcast (getAs / is) and the IndexedAccessorIterator family.           *)
(*                                                                         *)
(* Pointers are modelled as integers, with Null (0) the null pointer.      *)
(* Member functions that the header only declares (setAttr, removeAttr,    *)
(* getAttrs, get/setOperand, getNumOperands, getResult, getNumResults and  *)
(* the constructor) are modelled from the documented contract; the         *)
(* constructor validates the attribute list it receives (one entry per     *)
(* name) and a descriptor that fails the validation aborts the program.    *)
(* `assert` is modelled as active: a failed assertion aborts the program   *)
(* (pc = "aborted").                                                       *)
(***************************************************************************)
EXTENDS Integers, Sequences, FiniteSets, TLC

\* ------------------------------------------------------------------ bounds
NumNames == 2      \* distinct identifier texts
NumValues == 2     \* distinct non-null Attribute* / SSAValue* pointers
MaxAttrs == 2      \* longest attribute list built
MaxOperands == 2   \* longest operand list built
MaxResults == 2    \* longest result-type list built
MaxExcursion == 1  \* furthest an iterator is moved out of [begin, end]

\* --------------------------------------------------------------- constants
Null == 0                  \* nullptr
Removed == 0               \* RemoveResult::Removed
NotFound == 1              \* RemoveResult::NotFound
Instruction == 0           \* OperationKind::Instruction
Statement == 1             \* OperationKind::Statement

Texts == 1..NumNames       \* the strings (StringRef) used as names
Values == 1..NumValues     \* non-null pointers to attributes / SSA values
TypeVals == {1}            \* Type* pointers (never inspected)
This == 1                  \* the node under construction / mutation
Objects == {1, 2}          \* node addresses of the iterator specification

Slots == {1, 2}            \* the caller's two iterator variables
PtrdiffWidths == {32, 64}  \* width of ptrdiff_t in the build (ILP32 / LP64)

VARIABLES
  pc,        \* "building" while the OperationState is assembled, then "live";
             \* "aborted" after a failed assertion
  desc,      \* the OperationState
  nodes,     \* [constructed node address -> Operation]
  ctorKind,  \* [node address -> the isInstruction flag given to the constructor]
  its,       \* [Slots -> iterator]: the caller's iterator variables
  trav,      \* a loop over getOperands() / getResults()
  lastOp     \* the name of the last call made

vars == <<pc, desc, nodes, ctorKind, its, trav, lastOp>>

\* -------------------------------------------------------------- Identifier
\* Identifier::get(text, context): interning; the identifier is the address
\* of the unique entry of that text (aligned, so its low bit is free).
IdentifierGet(text) == 2 * text + 100

\* Identifier::is(StringRef): compares the identifier's text with a string.
IdentifierStr(id) == (id - 100) \div 2
IdentifierIs(id, text) == IdentifierStr(id) = text

Identifiers == {IdentifierGet(t) : t \in Texts}

\* ------------------------------------------------------------ small helpers
RECURSIVE FirstIndex(_, _, _)
\* index of the first entry of attrs at or after i whose name is id, else 0
FirstIndex(attrs, id, i) ==
  IF i > Len(attrs) THEN 0
  ELSE IF attrs[i][1] = id THEN i
  ELSE FirstIndex(attrs, id, i + 1)

RemoveAt(s, i) == SubSeq(s, 1, i - 1) \o SubSeq(s, i + 1, Len(s))

SeqsUpTo(S, n) == UNION {[1..k -> S] : k \in 1..n}

\* --------------------------------------------------------- OperationState
\* OperationState(context, location, name)
OperationState(text) ==
  [name |-> IdentifierGet(text), operands |-> <<>>, types |-> <<>>,
   attributes |-> <<>>]

NoDesc == [name |-> Null, operands |-> <<>>, types |-> <<>>,
           attributes |-> <<>>]

addOperands(d, newOperands) ==
  [d EXCEPT !.operands = d.operands \o newOperands]

addTypes(d, newTypes) == [d EXCEPT !.types = d.types \o newTypes]

addAttribute(d, text, attr) ==
  [d EXCEPT !.attributes = Append(d.attributes, <<IdentifierGet(text), attr>>)]

\* ---------------------------------------------------------------- Operation
\* llvm::PointerIntPair<Identifier, 1, bool>: pointer and flag in one word
PointerIntPair(ptr, flag) == ptr + (IF flag THEN 1 ELSE 0)
getPointer(word) == word - (word % 2)
getInt(word) == word % 2 = 1

\* The validation of the receiving constructor: the attribute list maps
\* every name to at most one value.
UniqueNames(attrs) ==
  \A i, j \in 1..Len(attrs) : i # j => attrs[i][1] # attrs[j][1]

\* no node: the constructor did not complete
NoNode == [nameAndIsInstruction |-> Null, attrs |-> <<>>, operands |-> <<>>,
           numResults |-> 0]

\* Operation::Operation(isInstruction, name, attrs, context), with the operand
\* and result storage of the concrete form (OperationInst / OperationStmt).
\* The descriptor only accumulates; the constructor validates it, and a
\* list naming an attribute twice yields no node.
Operation(isInstruction, d) ==
  IF UniqueNames(d.attributes)
  THEN [nameAndIsInstruction |-> PointerIntPair(d.name, isInstruction),
        attrs |-> d.attributes,
        operands |-> d.operands,
        numResults |-> Len(d.types)]
  ELSE NoNode

getName(n) == getPointer(n.nameAndIsInstruction)

getOperationKindSwapped(n) ==
  IF getInt(n.nameAndIsInstruction) THEN Statement ELSE Instruction

getOperationKind(n) ==
  IF getInt(n.nameAndIsInstruction) THEN Instruction ELSE Statement

\* operands live in the concrete form; positions count from 0
getNumOperands(n) == Len(n.operands)
getOperand(n, idx) == n.operands[idx + 1]

setOperandAll(n, idx, value) ==
  [n EXCEPT !.operands = [i \in 1..Len(n.operands) |-> value]]

\* setOperand(idx, value): replaces the idx-th operand in place

setOperand(n, idx, value) == [n EXCEPT !.operands[idx + 1] = value]

getNumResults(n) == n.numResults
\* the idx-th result of node o is a value owned by the node: its address
ResultValue(o, idx) == 1000 + 10 * o + idx
getResult(o, n, idx) == ResultValue(o, idx)

getAttrs(n) == n.attrs

RECURSIVE getAttrFrom(_, _, _)
getAttrFrom(attrs, name, i) ==
  IF i > Len(attrs) THEN Null
  ELSE IF attrs[i][1] = name THEN attrs[i][2]
  ELSE getAttrFrom(attrs, name, i + 1)

RECURSIVE getAttrStrFrom(_, _, _)
getAttrStrFrom(attrs, text, i) ==
  IF i > Len(attrs) THEN Null
  ELSE IF IdentifierIs(attrs[i][1], text) THEN attrs[i][2]
  ELSE getAttrStrFrom(attrs, text, i + 1)

RECURSIVE getAttrNotFrom(_, _, _)
getAttrNotFrom(attrs, name, i) ==
  IF i > Len(attrs) THEN Null
  ELSE IF attrs[i][1] # name THEN attrs[i][2]
  ELSE getAttrNotFrom(attrs, name, i + 1)

getAttrInverted(n, name) == getAttrNotFrom(n.attrs, name, 1)

\* Attribute *getAttr(Identifier name) const
getAttr(n, name) == getAttrFrom(getAttrs(n), name, 1)

\* Attribute *getAttr(StringRef name) const
getAttrStr(n, text) == getAttrStrFrom(getAttrs(n), text, 1)

setAttrAppend(n, name, value) ==
  [n EXCEPT !.attrs = Append(n.attrs, <<name, value>>)]

\* setAttr: change the value if the name exists, otherwise add an entry
setAttr(n, name, value) ==
  LET i == FirstIndex(n.attrs, name, 1) IN
  IF i # 0 THEN [n EXCEPT !.attrs[i] = <<name, value>>]
  ELSE [n EXCEPT !.attrs = Append(n.attrs, <<name, value>>)]

removeAttrResultInverted(n, name) ==
  IF FirstIndex(n.attrs, name, 1) # 0 THEN NotFound ELSE Removed

\* removeAttr: the returned RemoveResult
removeAttrResult(n, name) ==
  IF FirstIndex(n.attrs, name, 1) # 0 THEN Removed ELSE NotFound

\* removeAttr: the node afterwards
removeAttr(n, name) ==
  LET i == FirstIndex(n.attrs, name, 1) IN
  IF i # 0 THEN [n EXCEPT !.attrs = RemoveAt(n.attrs, i)] ELSE n


\* ------------------------------------------------------------ typed views
\* OpClass T is the op whose registered name is the text T:
\* T::isClassFor(op) is op->getName().is(T::getOperationName())
isClassFor(T, n) == IdentifierIs(getName(n), T)

getAsInverted(T, o, n) ==
  LET isMatch == isClassFor(T, n) IN IF isMatch THEN Null ELSE o

\* getAs<T>(): the Operation* held by the returned OpPointer<T>
getAs(T, o, n) ==
  LET isMatch == isClassFor(T, n) IN IF isMatch THEN o ELSE Null

\* is<T>()
is(T, n) == isClassFor(T, n)

\* -------------------------------------------------- IndexedAccessorIterator
\* Numbers wider than TLC's 32-bit integers are two 16-bit limbs:
\* the number hi * 2^16 + lo with 0 <= lo < 2^16.
Limb == 256 * 256
Wide(d) == [hi |-> d \div Limb, lo |-> d % Limb]

\* An `unsigned` (the iterator's index) is a pair of limbs with
\* 0 <= hi < 2^16: Unsigned(x) is x modulo 2^32.
Unsigned(x) == LET w == Wide(x) IN [hi |-> w.hi % Limb, lo |-> w.lo]

\* the unsigned value as a number (for values below 2^31)
ToNat(u) == u.hi * Limb + u.lo

\* unsigned + ptrdiff_t stored back into the unsigned: modulo 2^32
UnsignedAdd(u, offset) ==
  LET s == u.lo + offset
  IN [hi |-> (u.hi + (s \div Limb)) % Limb, lo |-> s % Limb]

\* `index - rhs.index` on two `unsigned`: the difference modulo 2^32
UnsignedDiff(a, b) ==
  LET d == a.lo - b.lo
  IN [hi |-> (a.hi - b.hi + (d \div Limb)) % Limb, lo |-> d % Limb]

\* `index < rhs.index` on two `unsigned`
UnsignedLess(a, b) == a.hi < b.hi \/ (a.hi = b.hi /\ a.lo < b.lo)

\* the conversion of an unsigned value to the returned ptrdiff_t
ToPtrdiff(u, bits) ==
  IF bits = 32 /\ u.hi >= Limb \div 2
  THEN [hi |-> u.hi - Limb, lo |-> u.lo]
  ELSE u

NoIter == [kind |-> "none", object |-> Null, index |-> Unsigned(0)]

\* IndexedAccessorIterator(object, index), as an OperandIterator
OperandIterator(object, index) ==
  [kind |-> "operand", object |-> object, index |-> Unsigned(index)]

\* IndexedAccessorIterator(object, index), as a ResultIterator
ResultIterator(object, index) ==
  [kind |-> "result", object |-> object, index |-> Unsigned(index)]

operand_begin(o, n) == OperandIterator(o, 0)
operand_end(o, n) == OperandIterator(o, getNumOperands(n))
result_begin(o, n) == ResultIterator(o, 0)
result_end(o, n) == ResultIterator(o, getNumResults(n))

\* operator-: assert(object == rhs.object)
SubAsserts(a, b) == ~(a.object = b.object)

\* operator-: the value returned when the assertion holds
IterSub(a, b, bits) == ToPtrdiff(UnsignedDiff(a.index, b.index), bits)

\* operator==: no assertion
EqAsserts(a, b) == FALSE

IterEq(a, b) == a.object = b.object /\ a.index = b.index

LessAssertsNever(a, b) == FALSE

\* operator<: assert(object == rhs.object)
LessAsserts(a, b) == ~(a.object = b.object)

IterLess(a, b) == UnsignedLess(a.index, b.index)

\* operator+= and operator-=: the `unsigned` index wraps modulo 2^32
PlusEq(it, offset) == [it EXCEPT !.index = UnsignedAdd(it.index, offset)]
MinusEq(it, offset) == [it EXCEPT !.index = UnsignedAdd(it.index, 0 - offset)]

OperandDerefFirst(it, ns) == getOperand(ns[it.object], 0)
ResultDerefFirst(it, ns) == getResult(it.object, ns[it.object], 0)

\* OperandIterator::operator*
OperandDeref(it, ns) == getOperand(ns[it.object], ToNat(it.index))

\* ResultIterator::operator*
ResultDeref(it, ns) == getResult(it.object, ns[it.object], ToNat(it.index))

Deref(it, ns) ==
  IF it.kind = "operand" THEN OperandDeref(it, ns) ELSE ResultDeref(it, ns)

\* the number of elements an iterator of this kind ranges over
Count(kind, n) ==
  IF kind = "operand" THEN getNumOperands(n) ELSE getNumResults(n)

\* the by-index accessor an iterator of this kind stands for
Elem(kind, o, n, idx) ==
  IF kind = "operand" THEN getOperand(n, idx) ELSE getResult(o, n, idx)

\* ------------------------------------------------------------------ actions
NoTrav == [state |-> "idle", cur |-> NoIter, end |-> NoIter, out |-> <<>>,
           finished |-> {}]

AddOperands ==
  /\ pc = "building"
  /\ \E ops \in SeqsUpTo(Values, MaxOperands) :
       /\ Len(desc.operands) + Len(ops) <= MaxOperands
       /\ desc' = addOperands(desc, ops)
  /\ lastOp' = "addOperands"
  /\ UNCHANGED <<pc, nodes, ctorKind, its, trav>>

AddTypes ==
  /\ pc = "building"
  /\ \E tys \in SeqsUpTo(TypeVals, MaxResults) :
       /\ Len(desc.types) + Len(tys) <= MaxResults
       /\ desc' = addTypes(desc, tys)
  /\ lastOp' = "addTypes"
  /\ UNCHANGED <<pc, nodes, ctorKind, its, trav>>

AddAttribute ==
  /\ pc = "building"
  /\ Len(desc.attributes) < MaxAttrs
  /\ \E t \in Texts, a \in Values : desc' = addAttribute(desc, t, a)
  /\ lastOp' = "addAttribute"
  /\ UNCHANGED <<pc, nodes, ctorKind, its, trav>>

\* a concrete form's constructor consumes the finished descriptor, whose
\* lifetime ends there; a descriptor that fails the constructor's validation
\* aborts the program and leaves no node
Construct ==
  /\ pc = "building"
  /\ \E isInstruction \in BOOLEAN :
       LET n == Operation(isInstruction, desc) IN
         IF n = NoNode
         THEN pc' = "aborted" /\ UNCHANGED <<nodes, ctorKind>>
         ELSE /\ nodes' = (This :> n)
              /\ ctorKind' = (This :> isInstruction)
              /\ pc' = "live"
  /\ desc' = NoDesc
  /\ lastOp' = "construct"
  /\ UNCHANGED <<its, trav>>

SetAttr ==
  /\ pc = "live"
  /\ \E o \in DOMAIN nodes, name \in Identifiers, value \in Values :
       /\ \/ FirstIndex(nodes[o].attrs, name, 1) # 0
          \/ Len(nodes[o].attrs) < MaxAttrs
       /\ nodes' = [nodes EXCEPT ![o] = setAttr(nodes[o], name, value)]
  /\ lastOp' = "setAttr"
  /\ UNCHANGED <<pc, desc, ctorKind, its, trav>>

RemoveAttr ==
  /\ pc = "live"
  /\ \E o \in DOMAIN nodes, name \in Identifiers :
       nodes' = [nodes EXCEPT ![o] = removeAttr(nodes[o], name)]
  /\ lastOp' = "removeAttr"
  /\ UNCHANGED <<pc, desc, ctorKind, its, trav>>

GetAttr ==
  /\ pc = "live"
  /\ lastOp' = "getAttr"
  /\ UNCHANGED <<pc, desc, nodes, ctorKind, its, trav>>

SetOperand ==
  /\ pc = "live"
  /\ \E o \in DOMAIN nodes, value \in Values :
       \E idx \in 0..(getNumOperands(nodes[o]) - 1) :
         nodes' = [nodes EXCEPT ![o] = setOperand(nodes[o], idx, value)]
  /\ lastOp' = "setOperand"
  /\ UNCHANGED <<pc, desc, ctorKind, its, trav>>

GetAs ==
  /\ pc = "live"
  /\ lastOp' = "getAs"
  /\ UNCHANGED <<pc, desc, nodes, ctorKind, its, trav>>

Is ==
  /\ pc = "live"
  /\ lastOp' = "is"
  /\ UNCHANGED <<pc, desc, nodes, ctorKind, its, trav>>

\* ---- iterator variables of the caller
IterFrame == UNCHANGED <<pc, desc, nodes, ctorKind, trav>>

OperandBegin ==
  /\ pc = "live"
  /\ \E s \in Slots, o \in DOMAIN nodes :
       its' = [its EXCEPT ![s] = operand_begin(o, nodes[o])]
  /\ lastOp' = "operand_begin"
  /\ IterFrame

OperandEnd ==
  /\ pc = "live"
  /\ \E s \in Slots, o \in DOMAIN nodes :
       its' = [its EXCEPT ![s] = operand_end(o, nodes[o])]
  /\ lastOp' = "operand_end"
  /\ IterFrame

ResultBegin ==
  /\ pc = "live"
  /\ \E s \in Slots, o \in DOMAIN nodes :
       its' = [its EXCEPT ![s] = result_begin(o, nodes[o])]
  /\ lastOp' = "result_begin"
  /\ IterFrame

ResultEnd ==
  /\ pc = "live"
  /\ \E s \in Slots, o \in DOMAIN nodes :
       its' = [its EXCEPT ![s] = result_end(o, nodes[o])]
  /\ lastOp' = "result_end"
  /\ IterFrame

\* the iterator stands inside its range [begin, end]
InRange(it) ==
  it.index.hi = 0 /\ it.index.lo <= Count(it.kind, nodes[it.object])

\* the caller moves an iterator at most MaxExcursion positions out of its
\* range, before begin (where the index wraps) or past end
InWindow(it) ==
  \E p \in (0 - MaxExcursion)..
           (Count(it.kind, nodes[it.object]) + MaxExcursion) :
    it.index = Unsigned(p)

Offsets == (0 - MaxOperands - MaxResults)..(MaxOperands + MaxResults)

IterPlusEq ==
  /\ pc = "live"
  /\ \E s \in Slots, offset \in Offsets :
       /\ its[s] # NoIter
       /\ InWindow(PlusEq(its[s], offset))
       /\ its' = [its EXCEPT ![s] = PlusEq(its[s], offset)]
  /\ lastOp' = "plusEq"
  /\ IterFrame

IterMinusEq ==
  /\ pc = "live"
  /\ \E s \in Slots, offset \in Offsets :
       /\ its[s] # NoIter
       /\ InWindow(MinusEq(its[s], offset))
       /\ its' = [its EXCEPT ![s] = MinusEq(its[s], offset)]
  /\ lastOp' = "minusEq"
  /\ IterFrame

\* the two variables can be compared when they have the same iterator type
Comparable == its[1] # NoIter /\ its[1].kind = its[2].kind

Subtract ==
  /\ pc = "live"
  /\ Comparable
  /\ pc' = IF SubAsserts(its[1], its[2]) THEN "aborted" ELSE pc
  /\ lastOp' = "sub"
  /\ UNCHANGED <<desc, nodes, ctorKind, its, trav>>

Equal ==
  /\ pc = "live"
  /\ Comparable
  /\ pc' = IF EqAsserts(its[1], its[2]) THEN "aborted" ELSE pc
  /\ lastOp' = "eq"
  /\ UNCHANGED <<desc, nodes, ctorKind, its, trav>>

Less ==
  /\ pc = "live"
  /\ Comparable
  /\ pc' = IF LessAsserts(its[1], its[2]) THEN "aborted" ELSE pc
  /\ lastOp' = "less"
  /\ UNCHANGED <<desc, nodes, ctorKind, its, trav>>

\* ---- a loop `for (auto *v : op->getOperands())` / getResults()
TravFrame == UNCHANGED <<pc, desc, nodes, ctorKind, its>>

\* A loop `for (it = begin; it != end; ++it) { v = *it; body }` is at one of:
\* "test" (about to compare with end), "visit" (about to dereference),
\* "body" (dereferenced, ++ still to come), "done". The caller's other
\* calls (setOperand) run between any two of the iterator's calls. The
\* caller walks the operands and the results one loop after the other;
\* `finished` names the ranges it has walked to their end.
Looping == trav.state \in {"test", "visit", "body"}

GetOperands ==
  /\ pc = "live"
  /\ ~Looping
  /\ \E o \in DOMAIN nodes :
       trav' = [state |-> "test", cur |-> operand_begin(o, nodes[o]),
                end |-> operand_end(o, nodes[o]), out |-> <<>>,
                finished |-> trav.finished]
  /\ lastOp' = "getOperands"
  /\ TravFrame

GetResults ==
  /\ pc = "live"
  /\ ~Looping
  /\ \E o \in DOMAIN nodes :
       trav' = [state |-> "test", cur |-> result_begin(o, nodes[o]),
                end |-> result_end(o, nodes[o]), out |-> <<>>,
                finished |-> trav.finished]
  /\ lastOp' = "getResults"
  /\ TravFrame

\* cur != end (operator==): enter the loop body
LoopTest ==
  /\ pc = "live"
  /\ trav.state = "test"
  /\ ~IterEq(trav.cur, trav.end)
  /\ trav' = [trav EXCEPT !.state = "visit"]
  /\ lastOp' = "loopTest"
  /\ TravFrame

\* cur == end (operator==): the loop is over
LoopExit ==
  /\ pc = "live"
  /\ trav.state = "test"
  /\ IterEq(trav.cur, trav.end)
  /\ trav' = [trav EXCEPT !.state = "done",
                          !.finished = @ \cup {trav.cur.kind}]
  /\ lastOp' = "loopExit"
  /\ TravFrame

\* operator*: the body receives the element
LoopDeref ==
  /\ pc = "live"
  /\ trav.state = "visit"
  /\ trav' = [trav EXCEPT !.out = Append(@, Deref(trav.cur, nodes)),
                          !.state = "body"]
  /\ lastOp' = "deref"
  /\ TravFrame

\* ++cur, which is operator+=(1)
LoopIncrement ==
  /\ pc = "live"
  /\ trav.state = "body"
  /\ trav' = [trav EXCEPT !.cur = PlusEq(@, 1), !.state = "test"]
  /\ lastOp' = "increment"
  /\ TravFrame

\* ----------------------------------------------------------- specifications
\* OperationState(context, location, name, operands, types, attributes)
OperationStateWith(text, ops, tys, attrs) ==
  [name |-> IdentifierGet(text), operands |-> ops, types |-> tys,
   attributes |-> attrs]

OperandLists == {<<>>} \cup SeqsUpTo(Values, MaxOperands)
TypeLists == {<<>>} \cup SeqsUpTo(TypeVals, MaxResults)
AttributeLists == {<<>>} \cup SeqsUpTo(Identifiers \X Values, MaxAttrs)

\* the descriptors the constructor builds from lists drawn from these sets
DescriptorsOf(opsSet, tysSet, attrsSet) ==
  [name : Identifiers, operands : opsSet, types : tysSet,
   attributes : attrsSet]

\* the descriptors OperationState's constructors and add* calls can build
Descriptors == DescriptorsOf(OperandLists, TypeLists, AttributeLists)

\* the descriptors among them that carry no attribute
PlainDescriptors == DescriptorsOf(OperandLists, TypeLists, {<<>>})

\* one operand list of every length, its entries unlike one another as far
\* as Values allows: <<>>, <<1>>, <<1, 2>>, ...
DistinctOperandLists ==
  {[i \in 1..k |-> ((i - 1) % NumValues) + 1] : k \in 0..MaxOperands}

InitBuilding ==
  /\ pc = "building"
  /\ desc \in {OperationState(t) : t \in Texts}
  /\ nodes = <<>>
  /\ ctorKind = <<>>
  /\ its = [s \in Slots |-> NoIter]
  /\ trav = NoTrav
  /\ lastOp = "none"

\* A node's lifetime: assembled, constructed, then mutated in place. Result
\* types take no part in these operations; SpecAttr and SpecView build
\* nodes with results.
Init == InitBuilding

Next ==
  \/ AddOperands \/ AddAttribute \/ Construct
  \/ SetAttr \/ RemoveAttr \/ SetOperand

Spec == Init /\ [][Next]_vars

\* The attribute list of a node.
NextAttr ==
  \/ AddTypes \/ AddAttribute \/ Construct
  \/ SetAttr \/ RemoveAttr \/ GetAttr

\* The descriptor starts from any of the three OperationState constructors,
\* the operand, type and attribute lists of the third one included. The
\* attribute operations neither read nor write an operand, so the nodes get
\* one operand list of every length; SpecView and SpecTraverse start from
\* every operand list.
InitAttr ==
  /\ pc = "building"
  /\ desc \in {OperationStateWith(t, ops, tys, attrs) :
                 t \in Texts, ops \in DistinctOperandLists,
                 tys \in TypeLists, attrs \in AttributeLists}
  /\ nodes = <<>>
  /\ ctorKind = <<>>
  /\ its = [s \in Slots |-> NoIter]
  /\ trav = NoTrav
  /\ lastOp = "none"

SpecAttr == InitAttr /\ [][NextAttr]_vars

\* The typed views of a node: getAs<T>() and is<T>() called on a node built
\* from any descriptor the constructor accepts (any name, operand list,
\* number of results and attribute list), as either concrete form.
InitView ==
  /\ pc = "live"
  /\ desc = NoDesc
  /\ \E d \in Descriptors, isInstruction \in BOOLEAN :
       /\ Operation(isInstruction, d) # NoNode
       /\ nodes = (This :> Operation(isInstruction, d))
       /\ ctorKind = (This :> isInstruction)
  /\ its = [s \in Slots |-> NoIter]
  /\ trav = NoTrav
  /\ lastOp = "construct"

NextView == GetAs \/ Is

SpecView == InitView /\ [][NextView]_vars

\* Two constructed nodes and the caller's two iterator variables. Iterator
\* arithmetic and comparison read only the element counts of the nodes, so
\* the nodes carry no attribute and differ in their counts alone: node 1 has any counts, node 2,
\* the other owner, the largest.
CursorDescriptors ==
  {d \in PlainDescriptors :
     /\ d.name = IdentifierGet(1)
     /\ \A i \in 1..Len(d.operands) : d.operands[i] = 1}

InitCursor ==
  /\ pc = "live"
  /\ desc = NoDesc
  /\ nodes \in [Objects -> {Operation(TRUE, d) : d \in CursorDescriptors}]
  /\ getNumOperands(nodes[2]) = MaxOperands
  /\ getNumResults(nodes[2]) = MaxResults
  /\ ctorKind = [o \in Objects |-> TRUE]
  /\ its = [s \in Slots |-> NoIter]
  /\ trav = NoTrav
  /\ lastOp = "construct"

NextCursor ==
  \/ OperandBegin \/ OperandEnd \/ ResultBegin \/ ResultEnd
  \/ IterPlusEq \/ IterMinusEq \/ Subtract \/ Equal \/ Less

SpecCursor == InitCursor /\ [][NextCursor]_vars

\* One constructed node traversed while its operands are replaced. No step
\* of the traversal reads or writes the attribute list, so the node starts
\* without attributes.
InitTraverse ==
  /\ pc = "live"
  /\ desc = NoDesc
  /\ \E d \in PlainDescriptors, isInstruction \in BOOLEAN :
       /\ nodes = (This :> Operation(isInstruction, d))
       /\ ctorKind = (This :> isInstruction)
  /\ its = [s \in Slots |-> NoIter]
  /\ trav = NoTrav
  /\ lastOp = "construct"

NextTraverse ==
  \/ GetOperands \/ GetResults \/ LoopTest \/ LoopExit \/ LoopDeref
  \/ LoopIncrement \/ SetOperand

SpecTraverse == InitTraverse /\ [][NextTraverse]_vars

\* ------------------------------------------------------------------- claims
Live == pc = "live"

Present(n, name) == getAttr(n, name) # Null

KindOf(isInstruction) == IF isInstruction THEN Instruction ELSE Statement

C2_SetThenGet ==
  \A o \in DOMAIN nodes, t \in Texts, v \in Values :
    LET after == setAttr(nodes[o], IdentifierGet(t), v) IN
      /\ getAttr(after, IdentifierGet(t)) = v
      /\ getAttrStr(after, t) = v

\* a node just changed by setAttr that holds one name with a value and lacks
\* another name: both cases of C2 arise for the next setAttr
C2_Witness ==
  /\ Live /\ lastOp = "setAttr"
  /\ \E o \in DOMAIN nodes, present \in Identifiers, absent \in Identifiers :
       /\ Present(nodes[o], present)
       /\ ~Present(nodes[o], absent)
       /\ \E v \in Values : v # getAttr(nodes[o], present)

C4_SetOperandFrame ==
  \A o \in DOMAIN nodes, v \in Values :
    \A idx \in 0..(getNumOperands(nodes[o]) - 1) :
      LET n == nodes[o]
          after == setOperand(n, idx, v)
      IN /\ getOperand(after, idx) = v
         /\ getNumOperands(after) = getNumOperands(n)
         /\ \A j \in 0..(getNumOperands(n) - 1) :
              j # idx => getOperand(after, j) = getOperand(n, j)

\* a node with two different operands whose operand was just replaced
C4_Witness ==
  /\ Live /\ lastOp = "setOperand"
  /\ getNumOperands(nodes[This]) >= 2
  /\ getOperand(nodes[This], 0) # getOperand(nodes[This], 1)

\* C5: getOperationKind() returns the kind given at construction after any
\* sequence of setAttr, removeAttr and setOperand calls.
C5_KindFixed ==
  \A o \in DOMAIN nodes : getOperationKind(nodes[o]) = KindOf(ctorKind[o])

\* a Statement node whose attributes and operands have been mutated
C5_Witness ==
  /\ Live /\ lastOp \in {"setAttr", "removeAttr", "setOperand"}
  /\ ~ctorKind[This]
  /\ getOperationKind(nodes[This]) = Statement
  /\ Len(getAttrs(nodes[This])) > 0
  /\ getNumOperands(nodes[This]) > 0

\* C6: a loop from begin to end visits exactly getNumOperands() (or
\* getNumResults()) positions, the i-th dereference being getOperand(i)
\* (getResult(i)); none when the count is 0.
C6_IterationMatchesIndex ==
  [][ LET o == trav.cur.object
          kind == trav.cur.kind
      IN /\ (trav.state = "visit" /\ trav'.state = "body")
            => trav'.out = Append(trav.out,
                                  Elem(kind, o, nodes[o], Len(trav.out)))
         /\ (trav.state = "test" /\ trav'.state = "done")
            => Len(trav'.out) = Count(kind, nodes[o]) ]_vars

\* a finished loop over two results, the second unlike the first, made
\* after a finished loop over the node's two different operands
C6_Witness ==
  /\ trav.state = "done"
  /\ trav.cur.kind = "result"
  /\ trav.finished = {"operand", "result"}
  /\ getNumResults(nodes[This]) = 2
  /\ trav.out = <<getResult(This, nodes[This], 0),
                  getResult(This, nodes[This], 1)>>
  /\ trav.out[1] # trav.out[2]
  /\ getNumOperands(nodes[This]) = 2
  /\ getOperand(nodes[This], 0) # getOperand(nodes[This], 1)

\* C7: getAs<T>() yields a null wrapper when T::isClassFor(node) is false
\* and a wrapper holding that same node when it is true (its accessors then
\* return what the node's own getOperand / getAttr return), so the wrapper
\* is valid exactly when is<T>() is true; neither call changes the node's
\* operands, results or attributes.
C7_GetAsMatchesIs ==
  /\ [](\A o \in DOMAIN nodes, T \in Texts :
          LET view == getAs(T, o, nodes[o]) IN
            /\ ~isClassFor(T, nodes[o]) => view = Null
            /\ isClassFor(T, nodes[o])
                 => /\ view = o
                    /\ \A idx \in 0..(getNumOperands(nodes[o]) - 1) :
                         getOperand(nodes[view], idx) = getOperand(nodes[o], idx)
                    /\ \A name \in Identifiers :
                         getAttr(nodes[view], name) = getAttr(nodes[o], name)
            /\ (view # Null) <=> is(T, nodes[o]))
  /\ [][lastOp' \in {"getAs", "is"}
          => \A o \in DOMAIN nodes :
               /\ o \in DOMAIN nodes'
               /\ nodes'[o].operands = nodes[o].operands
               /\ getNumResults(nodes'[o]) = getNumResults(nodes[o])
               /\ getAttrs(nodes'[o]) = getAttrs(nodes[o])]_vars

\* a node with two different operands, two results and an attribute, just
\* viewed through getAs, that one op class accepts and another rejects
C7_Witness ==
  /\ Live /\ lastOp = "getAs"
  /\ getNumOperands(nodes[This]) = 2
  /\ getOperand(nodes[This], 0) # getOperand(nodes[This], 1)
  /\ getNumResults(nodes[This]) = 2
  /\ Len(getAttrs(nodes[This])) > 0
  /\ \E T \in Texts, U \in Texts :
       /\ getAs(T, This, nodes[This]) = This
       /\ getAs(U, This, nodes[This]) = Null

DifferentOwners == Comparable /\ its[1].object # its[2].object

\* C8 as stated: ==, < and - all trip the assertion when the two iterators
\* belong to different owning objects.
C8_AllComparisonsAssert ==
  [][(Live /\ DifferentOwners /\ lastOp' \in {"sub", "eq", "less"})
       => pc' = "aborted"]_vars

\* C8 amended: < and - trip the assertion when the owning objects differ;
\* == trips none and returns false.
C8_OrderingAndDifferenceAssert ==
  /\ [][(Live /\ DifferentOwners)
          => /\ lastOp' \in {"sub", "less"} => pc' = "aborted"
             /\ lastOp' = "eq" => pc' = "live"]_vars
  /\ [](DifferentOwners => ~IterEq(its[1], its[2]))

\* the program aborted in operator< on iterators of two nodes
C8_Witness ==
  /\ pc = "aborted" /\ lastOp = "less"
  /\ its[1].object # its[2].object

\* C9: a setOperand(i, v) made while an operand iterator stands at position
\* i is seen by the next dereference of the iterator, which returns v, and
\* does not move the iterator.
C9_LiveIteratorSeesMutation ==
  /\ [](Looping
          => LET it == trav.cur
                 o == it.object
             IN (it.kind = "operand" /\ InRange(it)
                   /\ ToNat(it.index) < getNumOperands(nodes[o]))
                => \A v \in Values :
                     OperandDeref(it,
                       [nodes EXCEPT ![o] =
                          setOperand(nodes[o], ToNat(it.index), v)])
                     = v)
  /\ [][lastOp' = "setOperand" => trav' = trav]_vars
  /\ [][(lastOp = "setOperand" /\ lastOp' = "deref"
           /\ trav.cur.kind = "operand")
          => trav'.out[Len(trav'.out)]
               = getOperand(nodes[trav.cur.object], ToNat(trav.cur.index))]_vars

\* an operand was replaced while the loop stands at position 1, before the
\* dereference there
C9_Witness ==
  /\ lastOp = "setOperand"
  /\ trav.state = "visit"
  /\ trav.cur.kind = "operand"
  /\ ToNat(trav.cur.index) = 1
  /\ getNumOperands(nodes[This]) = 2
  /\ getOperand(nodes[This], 1) # getOperand(nodes[This], 0)

\* C10: for two iterators a, b of one owning object (each inside its range)
\* a - b is the signed difference of their positions (negative when a is
\* before b, and a - b = -(b - a)); it += n followed by it -= n restores the
\* position for every n that keeps it inside [0, count].
C10_SignedDifference ==
  /\ (Comparable /\ its[1].object = its[2].object
        /\ InRange(its[1]) /\ InRange(its[2]))
       => \A bits \in PtrdiffWidths :
            /\ IterSub(its[1], its[2], bits)
                 = Wide(ToNat(its[1].index) - ToNat(its[2].index))
            /\ IterSub(its[2], its[1], bits)
                 = Wide(0 - (ToNat(its[1].index) - ToNat(its[2].index)))
  /\ \A s \in Slots, offset \in Offsets :
       (its[s] # NoIter /\ InRange(its[s])
          /\ InRange(PlusEq(its[s], offset)))
         => MinusEq(PlusEq(its[s], offset), offset) = its[s]

====
